---- MODULE Spec2Model ----
(***************************************************************************)
(* The Autocomplete component of deel-autcomplete-component: the typed     *)
(* text, the suggestion list, the active-suggestion cursor, the visibility *)
(* flag and the delayed filter requests started by handleOnChange.         *)
(*                                                                         *)
(* Two revisions of the component are in the repository:                   *)
(*   "index"    src/src/components/autocomplete/index.tsx (filterField)    *)
(*   "part_002" src/unnamed/part_002 (filterKey, filterDataAsync)          *)
(* They differ in how the delayed filter is written and in the guard of    *)
(* the Enter key.  The variable `variant` fixes the revision of a run.     *)
(*                                                                         *)
(* Strings are sequences of one-character strings, so that toLowerCase and *)
(* includes are computed and not assumed.                                  *)
(***************************************************************************)
EXTENDS Integers, Sequences, FiniteSets, TLC

VARIABLES
  variant,           \* which revision of the component runs
  mounted,           \* the component instance is mounted
  data,              \* the `data` prop of the current render
  value,             \* useState("")        : the input text
  showSuggestions,   \* useState(false)     : the list is rendered
  suggestions,       \* useState<T[]>([])   : the filtered items
  activeSuggestion,  \* useState(0)         : the cursor
  scrollTop,         \* scrollTop of the <ul> ("0" or "scrollHeight")
  pending,           \* timers started by setTimeout, oldest first
  elapsed,           \* how many of them have waited their 1000 ms
  invoked,           \* arguments setSelectedItem received in the last step
  thrown,            \* the last handler ended by throwing
  applied,           \* the request whose result the last step committed
  lastIssued,        \* the newest request, while no other input followed it
  failed,            \* a filter attempt of this instance has thrown
  listeners,         \* mousedown listeners this component has on document
  fetch,             \* useFetch in App: isLoading, data, error; settled
  last               \* the last event handled, and the list state it found

vars == <<variant, mounted, data, value, showSuggestions, suggestions,
          activeSuggestion, scrollTop, pending, elapsed, invoked, thrown,
          applied, lastIssued, failed, listeners, fetch, last>>

----------------------------------------------------------------------------
(* Bounds *)

MaxPending == 2

----------------------------------------------------------------------------
(* Strings and items *)

LowerChar(c) ==
  CASE c = "O" -> "o"
    [] c = "N" -> "n"
    [] c = "X" -> "x"
    [] OTHER   -> c

toLowerCase(s) == [i \in 1..Len(s) |-> LowerChar(s[i])]

includes(s, q) ==
  \E k \in 0..(Len(s) - Len(q)) : SubSeq(s, k + 1, k + Len(q)) = q

Variants == {"index", "part_002"}

(* a nullable value is a sequence of at most one element: null is empty *)
Null == <<>>

Some(x) == <<x>>

Pokemon1 == [name |-> <<"O", "n">>, url |-> 1]
Pokemon2 == [name |-> <<"n", "o">>, url |-> 2]
Pokemon3 == [name |-> <<"o", "n", "o">>, url |-> 3]

Pokemon4 == [name |-> <<>>, url |-> 4]

FetchedResults == <<Pokemon1, Pokemon2, Pokemon3, Pokemon4>>

Inputs == { <<>>, <<"o">>, <<"O", "N">>, <<"x">> }

----------------------------------------------------------------------------
(* The filter callback *)

(* a comparison that forgets toLowerCase *)
Matches_CaseSensitive(item, filterValue) ==
  includes(item.name, filterValue)

(* a comparison with receiver and argument exchanged *)
Matches_Swapped(item, filterValue) ==
  includes(toLowerCase(filterValue), toLowerCase(item.name))

Matches(item, filterValue) ==
  includes(toLowerCase(item.name), toLowerCase(filterValue))

RECURSIVE FilterData(_, _)
FilterData(list, filterValue) ==
  IF list = <<>> THEN <<>>
  ELSE IF Matches(Head(list), filterValue)
       THEN <<Head(list)>> \o FilterData(Tail(list), filterValue)
       ELSE FilterData(Tail(list), filterValue)

(* fieldValue.toLowerCase() is a TypeError when item[filterField] is no     *)
(* string; an item without the field stands for every such item            *)
IsString(item) == "name" \in DOMAIN item

FilterThrows(list) == \E k \in 1..Len(list) : ~IsString(list[k])

----------------------------------------------------------------------------
(* Rendering: the <ul> exists only while showSuggestions holds, so a list  *)
(* rendered anew starts unscrolled.                                        *)

RenderScroll(wasShown, isShown, scroll) ==
  IF wasShown /\ isShown THEN scroll ELSE "0"

----------------------------------------------------------------------------
(* useOnClickOutside: the effect adds one mousedown listener to document;  *)
(* its cleanup removes that listener before the effect runs again and when *)
(* the component unmounts.                                                 *)

(* a listener is written as the render its handler belongs to: "latest"    *)
(* for the handler of the render on screen, "stale" for one of an earlier  *)
(* render.  The effect that adds a listener belongs to a new render, so    *)
(* whatever is still attached then holds an earlier render's handler.      *)
Stale(ls) == [i \in 1..Len(ls) |-> "stale"]

IsStale(l) == l = "stale"

addEventListener(ls) == Append(Stale(ls), "latest")

(* the cleanup removes the listener its own effect added, which is the one *)
(* of the render that was on screen until now                              *)
removeEventListener(ls) == SelectSeq(ls, IsStale)

(* an effect that adds its listener without removing the previous one *)
Rerender_NoCleanup == listeners' = addEventListener(listeners)

Rerender == listeners' = addEventListener(removeEventListener(listeners))

(* the record of the event being handled *)
Event(name) ==
  last' = [event |-> name, show |-> showSuggestions,
           active |-> activeSuggestion]

----------------------------------------------------------------------------

(* a component that starts with its list shown *)
Init_ShowsList ==
  /\ variant \in Variants
  /\ mounted = TRUE
  /\ data = <<>>
  /\ value = <<>>
  /\ showSuggestions = TRUE
  /\ suggestions = <<>>
  /\ activeSuggestion = 0
  /\ scrollTop = "0"
  /\ pending = <<>>
  /\ elapsed = 0
  /\ invoked = <<>>
  /\ thrown = FALSE
  /\ applied = <<>>
  /\ lastIssued = <<>>
  /\ failed = FALSE
  /\ listeners = addEventListener(<<>>)
  /\ fetch = [isLoading |-> TRUE, data |-> Null, error |-> Null,
              settled |-> FALSE]
  /\ last = [event |-> "mount", show |-> FALSE, active |-> 0]

Init ==
  /\ variant \in Variants
  /\ mounted = TRUE
  /\ data = <<>>
  /\ value = <<>>
  /\ showSuggestions = FALSE
  /\ suggestions = <<>>
  /\ activeSuggestion = 0
  /\ scrollTop = "0"
  /\ pending = <<>>
  /\ elapsed = 0
  /\ invoked = <<>>
  /\ thrown = FALSE
  /\ applied = <<>>
  /\ lastIssued = <<>>
  /\ failed = FALSE
  /\ listeners = addEventListener(<<>>)
  /\ fetch = [isLoading |-> TRUE, data |-> Null, error |-> Null,
              settled |-> FALSE]
  /\ last = [event |-> "mount", show |-> FALSE, active |-> 0]

(* App: the fetched list replaces the initial empty list *)
HostSetData ==
  /\ mounted
  /\ data = <<>>
  /\ data' = FetchedResults
  /\ invoked' = <<>>
  /\ thrown' = FALSE
  /\ applied' = <<>>
  /\ Event("data")
  /\ Rerender
  /\ UNCHANGED <<elapsed, failed, fetch>>
  /\ UNCHANGED <<variant, mounted, value, showSuggestions, suggestions,
                 activeSuggestion, scrollTop, pending, lastIssued>>

(* the closure given to setTimeout: the typed text and the data of the     *)
(* render that handled the keystroke; `behind` is 1 when an older timer    *)
(* was still set, else 0                                                   *)
Request(input) ==
  [input |-> input, data |-> data,
   behind |-> IF pending = <<>> THEN 0 ELSE 1]

(* a keystroke that leaves the cursor where it was *)
handleOnChange_KeepsCursor(input) ==
  /\ mounted
  /\ input # value
  /\ value' = input
  /\ activeSuggestion' = activeSuggestion
  /\ IF input = <<>>
     THEN /\ showSuggestions' = FALSE
          /\ pending' = pending
          /\ lastIssued' = <<>>
     ELSE /\ Len(pending) < MaxPending
          /\ showSuggestions' = showSuggestions
          /\ pending' = Append(pending, Request(input))
          /\ lastIssued' = <<Request(input)>>
  /\ scrollTop' = RenderScroll(showSuggestions, showSuggestions', scrollTop)
  /\ invoked' = <<>>
  /\ thrown' = FALSE
  /\ applied' = <<>>
  /\ Event("change")
  /\ Rerender
  /\ UNCHANGED <<elapsed, failed, fetch>>
  /\ UNCHANGED <<variant, mounted, data, suggestions>>

(* a keystroke that starts a timer for the empty text too *)
handleOnChange_FiltersEmpty(input) ==
  /\ mounted
  /\ input # value
  /\ value' = input
  /\ activeSuggestion' = 0
  /\ Len(pending) < MaxPending
  /\ showSuggestions' = showSuggestions
  /\ pending' = Append(pending, Request(input))
  /\ lastIssued' = <<Request(input)>>
  /\ scrollTop' = RenderScroll(showSuggestions, showSuggestions', scrollTop)
  /\ invoked' = <<>>
  /\ thrown' = FALSE
  /\ applied' = <<>>
  /\ Event("change")
  /\ Rerender
  /\ UNCHANGED <<elapsed, failed, fetch>>
  /\ UNCHANGED <<variant, mounted, data, suggestions>>

(* a keystroke that filters at once, without a timer *)
handleOnChange_Synchronous(input) ==
  /\ mounted
  /\ input # value
  /\ value' = input
  /\ activeSuggestion' = 0
  /\ IF input = <<>>
     THEN /\ showSuggestions' = FALSE
          /\ pending' = pending
          /\ lastIssued' = <<>>
     ELSE /\ showSuggestions' = TRUE
          /\ pending' = pending
          /\ lastIssued' = <<Request(input)>>
  /\ scrollTop' = RenderScroll(showSuggestions, showSuggestions', scrollTop)
  /\ invoked' = <<>>
  /\ thrown' = FALSE
  /\ applied' = <<>>
  /\ Event("change")
  /\ Rerender
  /\ UNCHANGED <<elapsed, failed, fetch>>
  /\ suggestions' = IF input = <<>> THEN suggestions
                    ELSE FilterData(data, input)
  /\ UNCHANGED <<variant, mounted, data>>

(* a keystroke that clears the timers set before it *)
handleOnChange_Debounced(input) ==
  /\ mounted
  /\ input # value
  /\ value' = input
  /\ activeSuggestion' = 0
  /\ IF input = <<>>
     THEN /\ showSuggestions' = FALSE
          /\ pending' = pending
          /\ lastIssued' = <<>>
     ELSE /\ Len(pending) < MaxPending
          /\ showSuggestions' = showSuggestions
          /\ pending' = <<Request(input)>>
          /\ lastIssued' = <<Request(input)>>
  /\ scrollTop' = RenderScroll(showSuggestions, showSuggestions', scrollTop)
  /\ invoked' = <<>>
  /\ thrown' = FALSE
  /\ applied' = <<>>
  /\ Event("change")
  /\ Rerender
  /\ elapsed' = IF input = <<>> THEN elapsed ELSE 0
  /\ UNCHANGED <<failed, fetch>>
  /\ UNCHANGED <<variant, mounted, data, suggestions>>

(* handleOnChange *)
handleOnChange(input) ==
  /\ mounted
  /\ input # value
  /\ value' = input
  /\ activeSuggestion' = 0
  /\ IF input = <<>>
     THEN /\ showSuggestions' = FALSE
          /\ pending' = pending
          /\ lastIssued' = <<>>
     ELSE /\ Len(pending) < MaxPending
          /\ showSuggestions' = showSuggestions
          /\ pending' = Append(pending, Request(input))
          /\ lastIssued' = <<Request(input)>>
  /\ scrollTop' = RenderScroll(showSuggestions, showSuggestions', scrollTop)
  /\ invoked' = <<>>
  /\ thrown' = FALSE
  /\ applied' = <<>>
  /\ Event("change")
  /\ Rerender
  /\ UNCHANGED <<elapsed, failed, fetch>>
  /\ UNCHANGED <<variant, mounted, data, suggestions>>

(* the delay of the oldest timer still waiting runs out; timers of equal   *)
(* delay run out in the order they were set                                *)
TimePasses ==
  /\ elapsed < Len(pending)
  /\ elapsed' = elapsed + 1
  /\ invoked' = <<>>
  /\ thrown' = FALSE
  /\ applied' = <<>>
  /\ UNCHANGED <<variant, mounted, data, value, showSuggestions, suggestions,
                 activeSuggestion, scrollTop, pending, lastIssued, failed,
                 listeners, fetch, last>>

(* timers that fire newest first *)
TimerFire_NewestFirst ==
  /\ elapsed > 0
  /\ elapsed' = elapsed - 1
  /\ pending' = SubSeq(pending, 1, Len(pending) - 1)
  /\ IF mounted /\ ~FilterThrows(pending[Len(pending)].data)
     THEN /\ showSuggestions' = TRUE
          /\ suggestions' = FilterData(pending[Len(pending)].data, pending[Len(pending)].input)
          /\ applied' = <<pending[Len(pending)]>>
          /\ Rerender
     ELSE /\ UNCHANGED <<showSuggestions, suggestions>>
          /\ applied' = <<>>
          /\ UNCHANGED listeners
  /\ scrollTop' = RenderScroll(showSuggestions, showSuggestions', scrollTop)
  /\ invoked' = <<>>
  /\ thrown' = FilterThrows(pending[Len(pending)].data)
  /\ failed' = (failed \/ FilterThrows(pending[Len(pending)].data))
  /\ Event("timer")
  /\ UNCHANGED <<variant, mounted, data, value, activeSuggestion, lastIssued,
                 fetch>>

(* a callback that shows the list only when something matched *)
TimerFire_HideEmpty ==
  /\ elapsed > 0
  /\ elapsed' = elapsed - 1
  /\ pending' = Tail(pending)
  /\ IF mounted /\ ~FilterThrows(Head(pending).data)
     THEN /\ suggestions' = FilterData(Head(pending).data, Head(pending).input)
          /\ showSuggestions' = (suggestions' # <<>>)
          /\ applied' = <<Head(pending)>>
          /\ Rerender
     ELSE /\ UNCHANGED <<showSuggestions, suggestions>>
          /\ applied' = <<>>
          /\ UNCHANGED listeners
  /\ scrollTop' = RenderScroll(showSuggestions, showSuggestions', scrollTop)
  /\ invoked' = <<>>
  /\ thrown' = FilterThrows(Head(pending).data)
  /\ failed' = (failed \/ FilterThrows(Head(pending).data))
  /\ Event("timer")
  /\ UNCHANGED <<variant, mounted, data, value, activeSuggestion, lastIssued,
                 fetch>>

(* a callback that shows the list before it filters *)
TimerFire_ShowsFirst ==
  /\ elapsed > 0
  /\ elapsed' = elapsed - 1
  /\ pending' = Tail(pending)
  /\ IF mounted /\ ~FilterThrows(Head(pending).data)
     THEN /\ showSuggestions' = TRUE
          /\ suggestions' = FilterData(Head(pending).data, Head(pending).input)
          /\ applied' = <<Head(pending)>>
          /\ Rerender
     ELSE /\ showSuggestions' = IF mounted THEN TRUE ELSE showSuggestions
          /\ UNCHANGED suggestions
          /\ applied' = <<>>
          /\ UNCHANGED listeners
  /\ scrollTop' = RenderScroll(showSuggestions, showSuggestions', scrollTop)
  /\ invoked' = <<>>
  /\ thrown' = FilterThrows(Head(pending).data)
  /\ failed' = (failed \/ FilterThrows(Head(pending).data))
  /\ Event("timer")
  /\ UNCHANGED <<variant, mounted, data, value, activeSuggestion, lastIssued,
                 fetch>>

(* a callback that commits nothing once an attempt has failed *)
TimerFire_FailureSticks ==
  /\ elapsed > 0
  /\ elapsed' = elapsed - 1
  /\ pending' = Tail(pending)
  /\ IF mounted /\ ~FilterThrows(Head(pending).data)
     THEN /\ showSuggestions' = IF failed THEN showSuggestions ELSE TRUE
          /\ suggestions' = IF failed THEN suggestions
                             ELSE FilterData(Head(pending).data, Head(pending).input)
          /\ applied' = <<Head(pending)>>
          /\ Rerender
     ELSE /\ UNCHANGED <<showSuggestions, suggestions>>
          /\ applied' = <<>>
          /\ UNCHANGED listeners
  /\ scrollTop' = RenderScroll(showSuggestions, showSuggestions', scrollTop)
  /\ invoked' = <<>>
  /\ thrown' = FilterThrows(Head(pending).data)
  /\ failed' = (failed \/ FilterThrows(Head(pending).data))
  /\ Event("timer")
  /\ UNCHANGED <<variant, mounted, data, value, activeSuggestion, lastIssued,
                 fetch>>

(* a callback that adds its result to the list already held *)
TimerFire_Accumulates ==
  /\ elapsed > 0
  /\ elapsed' = elapsed - 1
  /\ pending' = Tail(pending)
  /\ IF mounted /\ ~FilterThrows(Head(pending).data)
     THEN /\ showSuggestions' = TRUE
          /\ suggestions' = suggestions \o FilterData(Head(pending).data,
                                                      Head(pending).input)
          /\ applied' = <<Head(pending)>>
          /\ Rerender
     ELSE /\ UNCHANGED <<showSuggestions, suggestions>>
          /\ applied' = <<>>
          /\ UNCHANGED listeners
  /\ scrollTop' = RenderScroll(showSuggestions, showSuggestions', scrollTop)
  /\ invoked' = <<>>
  /\ thrown' = FilterThrows(Head(pending).data)
  /\ failed' = (failed \/ FilterThrows(Head(pending).data))
  /\ Event("timer")
  /\ UNCHANGED <<variant, mounted, data, value, activeSuggestion, lastIssued,
                 fetch>>

(* a callback that filters the list of the render on screen *)
TimerFire_CurrentData ==
  /\ elapsed > 0
  /\ elapsed' = elapsed - 1
  /\ pending' = Tail(pending)
  /\ IF mounted /\ ~FilterThrows(data)
     THEN /\ showSuggestions' = TRUE
          /\ suggestions' = FilterData(data, Head(pending).input)
          /\ applied' = <<Head(pending)>>
          /\ Rerender
     ELSE /\ UNCHANGED <<showSuggestions, suggestions>>
          /\ applied' = <<>>
          /\ UNCHANGED listeners
  /\ scrollTop' = RenderScroll(showSuggestions, showSuggestions', scrollTop)
  /\ invoked' = <<>>
  /\ thrown' = FilterThrows(Head(pending).data)
  /\ failed' = (failed \/ FilterThrows(Head(pending).data))
  /\ Event("timer")
  /\ UNCHANGED <<variant, mounted, data, value, activeSuggestion, lastIssued,
                 fetch>>

(* the setTimeout callback, run once its delay has elapsed: the filter     *)
(* throws on the first item whose field is no string, before any setter is *)
(* called (part_002: the promise rejects and .then is skipped)             *)
TimerFire ==
  /\ elapsed > 0
  /\ elapsed' = elapsed - 1
  /\ pending' = Tail(pending)
  /\ IF mounted /\ ~FilterThrows(Head(pending).data)
     THEN /\ showSuggestions' = TRUE
          /\ suggestions' = FilterData(Head(pending).data, Head(pending).input)
          /\ applied' = <<Head(pending)>>
          /\ Rerender
     ELSE /\ UNCHANGED <<showSuggestions, suggestions>>
          /\ applied' = <<>>
          /\ UNCHANGED listeners
  /\ scrollTop' = RenderScroll(showSuggestions, showSuggestions', scrollTop)
  /\ invoked' = <<>>
  /\ thrown' = FilterThrows(Head(pending).data)
  /\ failed' = (failed \/ FilterThrows(Head(pending).data))
  /\ Event("timer")
  /\ UNCHANGED <<variant, mounted, data, value, activeSuggestion, lastIssued,
                 fetch>>

(* onKeyDown: evaluating suggestions[activeSuggestion][...] on an index    *)
(* that holds no item throws a TypeError after setShowSuggestions(false)   *)
(* was queued.                                                             *)
HasActiveItem == activeSuggestion < Len(suggestions)

ActiveItem == suggestions[activeSuggestion + 1]

EnterGuard ==
  IF variant = "index" THEN TRUE
  ELSE value # <<>> /\ Len(suggestions) > 0

KeyArrowUp ==
  /\ activeSuggestion # 0
  /\ activeSuggestion' = activeSuggestion - 1
  /\ scrollTop' = IF showSuggestions /\ 2 * activeSuggestion <= Len(suggestions)
                  THEN "0" ELSE scrollTop
  /\ invoked' = <<>>
  /\ thrown' = FALSE
  /\ UNCHANGED <<value, showSuggestions>>

KeyArrowDown ==
  /\ activeSuggestion < Len(suggestions) - 1
  /\ activeSuggestion' = activeSuggestion + 1
  /\ scrollTop' = IF showSuggestions /\ 2 * activeSuggestion >= Len(suggestions)
                  THEN "scrollHeight" ELSE scrollTop
  /\ invoked' = <<>>
  /\ thrown' = FALSE
  /\ UNCHANGED <<value, showSuggestions>>

(* an Escape that hides the list and keeps the text *)
KeyEscape_KeepsText ==
  /\ showSuggestions' = FALSE
  /\ value' = value
  /\ scrollTop' = "0"
  /\ invoked' = <<>>
  /\ thrown' = FALSE
  /\ UNCHANGED activeSuggestion

KeyEscape ==
  /\ showSuggestions' = FALSE
  /\ value' = <<>>
  /\ scrollTop' = "0"
  /\ invoked' = <<>>
  /\ thrown' = FALSE
  /\ UNCHANGED activeSuggestion

KeyEnter ==
  /\ EnterGuard
  /\ showSuggestions' = FALSE
  /\ scrollTop' = "0"
  /\ IF HasActiveItem
     THEN /\ value' = ActiveItem.name
          /\ invoked' = <<ActiveItem>>
          /\ thrown' = FALSE
     ELSE /\ value' = value
          /\ invoked' = <<>>
          /\ thrown' = TRUE
  /\ UNCHANGED activeSuggestion

KeyIgnored ==
  /\ invoked' = <<>>
  /\ thrown' = FALSE
  /\ UNCHANGED <<value, showSuggestions, activeSuggestion, scrollTop>>

Keys == {"ArrowUp", "ArrowDown", "Escape", "Enter", "a"}

(* an ArrowDown bound that is off by one *)
onKeyDown_PastEnd(key) ==
  /\ mounted
  /\ IF key = "ArrowUp" /\ activeSuggestion # 0 THEN KeyArrowUp
     ELSE IF key = "ArrowDown" /\ activeSuggestion < Len(suggestions)
          THEN /\ activeSuggestion' = activeSuggestion + 1
               /\ invoked' = <<>>
               /\ thrown' = FALSE
               /\ UNCHANGED <<value, showSuggestions, scrollTop>>
     ELSE IF key = "Escape" THEN KeyEscape
     ELSE IF key = "Enter" /\ EnterGuard THEN KeyEnter
     ELSE KeyIgnored
  /\ applied' = <<>>
  /\ lastIssued' = <<>>
  /\ Event(key)
  /\ Rerender
  /\ UNCHANGED <<elapsed, failed, fetch>>
  /\ UNCHANGED <<variant, mounted, data, suggestions, pending>>

onKeyDown(key) ==
  /\ mounted
  /\ IF key = "ArrowUp" /\ activeSuggestion # 0 THEN KeyArrowUp
     ELSE IF key = "ArrowDown" /\ activeSuggestion < Len(suggestions) - 1
          THEN KeyArrowDown
     ELSE IF key = "Escape" THEN KeyEscape
     ELSE IF key = "Enter" /\ EnterGuard THEN KeyEnter
     ELSE KeyIgnored
  /\ applied' = <<>>
  /\ lastIssued' = <<>>
  /\ Event(key)
  /\ Rerender
  /\ UNCHANGED <<elapsed, failed, fetch>>
  /\ UNCHANGED <<variant, mounted, data, suggestions, pending>>

(* a click that commits the active item instead of the clicked one *)
onSetSuggestion_Active(i) ==
  /\ mounted
  /\ showSuggestions
  /\ i \in 1..Len(suggestions)
  /\ showSuggestions' = FALSE
  /\ value' = (IF HasActiveItem THEN ActiveItem ELSE suggestions[i]).name
  /\ invoked' = <<IF HasActiveItem THEN ActiveItem ELSE suggestions[i]>>
  /\ scrollTop' = "0"
  /\ thrown' = FALSE
  /\ applied' = <<>>
  /\ lastIssued' = <<>>
  /\ Event("click")
  /\ Rerender
  /\ UNCHANGED <<elapsed, failed, fetch>>
  /\ UNCHANGED <<variant, mounted, data, suggestions, activeSuggestion, pending>>

(* a commit whose new text is filtered like a typed one *)
onSetSuggestion_Refilters(i) ==
  /\ mounted
  /\ showSuggestions
  /\ i \in 1..Len(suggestions)
  /\ showSuggestions' = FALSE
  /\ value' = suggestions[i].name
  /\ invoked' = <<suggestions[i]>>
  /\ scrollTop' = "0"
  /\ thrown' = FALSE
  /\ applied' = <<>>
  /\ lastIssued' = <<>>
  /\ Event("click")
  /\ Rerender
  /\ UNCHANGED <<elapsed, failed, fetch>>
  /\ pending' = IF Len(pending) < MaxPending
                THEN Append(pending, Request(suggestions[i].name))
                ELSE pending
  /\ UNCHANGED <<variant, mounted, data, suggestions, activeSuggestion>>

(* onSetSuggestion, the onClick of the rendered <li> of suggestions[i] *)
onSetSuggestion(i) ==
  /\ mounted
  /\ showSuggestions
  /\ i \in 1..Len(suggestions)
  /\ showSuggestions' = FALSE
  /\ value' = suggestions[i].name
  /\ invoked' = <<suggestions[i]>>
  /\ scrollTop' = "0"
  /\ thrown' = FALSE
  /\ applied' = <<>>
  /\ lastIssued' = <<>>
  /\ Event("click")
  /\ Rerender
  /\ UNCHANGED <<elapsed, failed, fetch>>
  /\ UNCHANGED <<variant, mounted, data, suggestions, activeSuggestion, pending>>

(* suggestions.indexOf(suggestion): the first position holding the item *)
indexOf(list, item) ==
  IF \E k \in 1..Len(list) : list[k] = item
  THEN (CHOOSE k \in 1..Len(list) :
          /\ list[k] = item
          /\ \A j \in 1..(k - 1) : list[j] # item) - 1
  ELSE -1

(* a hover that also reports the item to the host *)
onSuggestionItemHover_Commits(i) ==
  /\ mounted
  /\ showSuggestions
  /\ i \in 1..Len(suggestions)
  /\ activeSuggestion' = indexOf(suggestions, suggestions[i])
  /\ invoked' = <<suggestions[i]>>
  /\ thrown' = FALSE
  /\ applied' = <<>>
  /\ lastIssued' = <<>>
  /\ Event("hover")
  /\ Rerender
  /\ UNCHANGED <<elapsed, failed, fetch>>
  /\ UNCHANGED <<variant, mounted, data, value, showSuggestions, suggestions,
                 scrollTop, pending>>

(* a hover that takes the 1-based position of the item *)
onSuggestionItemHover_OffByOne(i) ==
  /\ mounted
  /\ showSuggestions
  /\ i \in 1..Len(suggestions)
  /\ activeSuggestion' = indexOf(suggestions, suggestions[i]) + 1
  /\ invoked' = <<>>
  /\ thrown' = FALSE
  /\ applied' = <<>>
  /\ lastIssued' = <<>>
  /\ Event("hover")
  /\ Rerender
  /\ UNCHANGED <<elapsed, failed, fetch>>
  /\ UNCHANGED <<variant, mounted, data, value, showSuggestions, suggestions,
                 scrollTop, pending>>

(* onSuggestionItemHover, the onMouseEnter of the rendered <li> *)
onSuggestionItemHover(i) ==
  /\ mounted
  /\ showSuggestions
  /\ i \in 1..Len(suggestions)
  /\ activeSuggestion' = indexOf(suggestions, suggestions[i])
  /\ invoked' = <<>>
  /\ thrown' = FALSE
  /\ applied' = <<>>
  /\ lastIssued' = <<>>
  /\ Event("hover")
  /\ Rerender
  /\ UNCHANGED <<elapsed, failed, fetch>>
  /\ UNCHANGED <<variant, mounted, data, value, showSuggestions, suggestions,
                 scrollTop, pending>>

(* a dismissal that also resets the cursor *)
OutsideClick_ResetsCursor ==
  /\ listeners # <<>>
  /\ IF mounted
     THEN /\ showSuggestions' = FALSE
          /\ scrollTop' = "0"
          /\ Rerender
     ELSE UNCHANGED <<showSuggestions, scrollTop, listeners>>
  /\ invoked' = <<>>
  /\ thrown' = FALSE
  /\ applied' = <<>>
  /\ lastIssued' = <<>>
  /\ Event("outside")
  /\ activeSuggestion' = 0
  /\ UNCHANGED <<elapsed, failed, fetch>>
  /\ UNCHANGED <<variant, mounted, data, value, suggestions,
                 pending>>

(* a mousedown whose target is not inside containerRef: every attached     *)
(* listener calls the handler given to useOnClickOutside                   *)
OutsideClick ==
  /\ listeners # <<>>
  /\ IF mounted
     THEN /\ showSuggestions' = FALSE
          /\ scrollTop' = "0"
          /\ Rerender
     ELSE UNCHANGED <<showSuggestions, scrollTop, listeners>>
  /\ invoked' = <<>>
  /\ thrown' = FALSE
  /\ applied' = <<>>
  /\ lastIssued' = <<>>
  /\ Event("outside")
  /\ UNCHANGED <<elapsed, failed, fetch>>
  /\ UNCHANGED <<variant, mounted, data, value, suggestions, activeSuggestion,
                 pending>>

(* the elements rendered inside <div ref={containerRef}> *)
ContainerNodes == {"input", "ul", "li"}

(* ref.current.contains(e.target) *)
contains(target) == target \in ContainerNodes

(* a listener that does not test where the press landed *)
onInputClick_Uncontained ==
  /\ mounted
  /\ IF listeners # <<>> /\ TRUE
     THEN /\ showSuggestions' = FALSE
          /\ scrollTop' = "0"
          /\ Rerender
     ELSE UNCHANGED <<showSuggestions, scrollTop, listeners>>
  /\ invoked' = <<>>
  /\ thrown' = FALSE
  /\ applied' = <<>>
  /\ lastIssued' = <<>>
  /\ Event("inputclick")
  /\ UNCHANGED <<elapsed, failed, fetch>>
  /\ UNCHANGED <<variant, mounted, data, value, suggestions, activeSuggestion,
                 pending>>

(* a mouse press and click on the <input>: the document listener returns  *)
(* at once because containerRef contains the target; onInputClick only     *)
(* stops the propagation of the click                                      *)
onInputClick ==
  /\ mounted
  /\ IF listeners # <<>> /\ ~contains("input")
     THEN /\ showSuggestions' = FALSE
          /\ scrollTop' = "0"
          /\ Rerender
     ELSE UNCHANGED <<showSuggestions, scrollTop, listeners>>
  /\ invoked' = <<>>
  /\ thrown' = FALSE
  /\ applied' = <<>>
  /\ lastIssued' = <<>>
  /\ Event("inputclick")
  /\ UNCHANGED <<elapsed, failed, fetch>>
  /\ UNCHANGED <<variant, mounted, data, value, suggestions, activeSuggestion,
                 pending>>

(* an effect without a cleanup function *)
Unmount_NoCleanup ==
  /\ mounted
  /\ mounted' = FALSE
  /\ listeners' = listeners
  /\ invoked' = <<>>
  /\ thrown' = FALSE
  /\ applied' = <<>>
  /\ Event("unmount")
  /\ UNCHANGED <<elapsed, failed, fetch>>
  /\ UNCHANGED <<variant, data, value, showSuggestions, suggestions,
                 activeSuggestion, scrollTop, pending, lastIssued>>

(* the host removes the component: the effect cleanup runs; the timers    *)
(* already set stay set                                                    *)
Unmount ==
  /\ mounted
  /\ mounted' = FALSE
  /\ listeners' = removeEventListener(listeners)
  /\ invoked' = <<>>
  /\ thrown' = FALSE
  /\ applied' = <<>>
  /\ Event("unmount")
  /\ UNCHANGED <<elapsed, failed, fetch>>
  /\ UNCHANGED <<variant, data, value, showSuggestions, suggestions,
                 activeSuggestion, scrollTop, pending, lastIssued>>

Next ==
  \/ HostSetData
  \/ \E input \in Inputs : handleOnChange(input)
  \/ TimePasses
  \/ TimerFire
  \/ \E key \in Keys : onKeyDown(key)
  \/ \E i \in DOMAIN suggestions : onSetSuggestion(i)
  \/ \E i \in DOMAIN suggestions : onSuggestionItemHover(i)
  \/ OutsideClick
  \/ onInputClick
  \/ Unmount

Spec == Init /\ [][Next]_vars

(* Progress of the requests: the component stays mounted on the fetched    *)
(* list; keystrokes, Escape, Enter, clicks on items and outside clicks     *)
(* come in any order.  The event loop runs every timer whose delay has     *)
(* elapsed, and every delay elapses.                                       *)

LiveInputs == { <<>>, <<"o">>, <<"x">> }

LiveKeys == {"Escape", "Enter"}

LiveInit ==
  /\ variant \in Variants
  /\ mounted = TRUE
  /\ data = FetchedResults
  /\ value = <<>>
  /\ showSuggestions = FALSE
  /\ suggestions = <<>>
  /\ activeSuggestion = 0
  /\ scrollTop = "0"
  /\ pending = <<>>
  /\ elapsed = 0
  /\ invoked = <<>>
  /\ thrown = FALSE
  /\ applied = <<>>
  /\ lastIssued = <<>>
  /\ failed = FALSE
  /\ listeners = addEventListener(<<>>)
  /\ fetch = [isLoading |-> TRUE, data |-> Null, error |-> Null,
              settled |-> FALSE]
  /\ last = [event |-> "mount", show |-> FALSE, active |-> 0]

LiveNext ==
  \/ \E input \in LiveInputs : handleOnChange(input)
  \/ TimePasses
  \/ TimerFire
  \/ \E key \in LiveKeys : onKeyDown(key)
  \/ \E i \in DOMAIN suggestions : onSetSuggestion(i)
  \/ OutsideClick

LiveSpec ==
  /\ LiveInit
  /\ [][LiveNext]_vars
  /\ WF_vars(TimePasses)
  /\ WF_vars(TimerFire)

----------------------------------------------------------------------------
(* The filter on its own: every candidate list and every non-empty query   *)
(* within the bounds, one keystroke and its timer.                         *)

MaxName == 2
MaxQuery == 2
MaxList == 2

NameChars == {"o", "N"}
QueryChars == {"o", "n", "N"}

Strings(chars, n) == UNION { [1..k -> chars] : k \in 1..n }

CandidateLists ==
  UNION { { [k \in 1..n |-> [name |-> f[k], url |-> k]] :
              f \in [1..n -> Strings(NameChars, MaxName)] } : n \in 0..MaxList }

Queries == Strings(QueryChars, MaxQuery)

FilterInit ==
  /\ variant \in Variants
  /\ mounted = TRUE
  /\ data \in CandidateLists
  /\ value = <<>>
  /\ showSuggestions = FALSE
  /\ suggestions = <<>>
  /\ activeSuggestion = 0
  /\ scrollTop = "0"
  /\ pending = <<>>
  /\ elapsed = 0
  /\ invoked = <<>>
  /\ thrown = FALSE
  /\ applied = <<>>
  /\ lastIssued = <<>>
  /\ failed = FALSE
  /\ listeners = addEventListener(<<>>)
  /\ fetch = [isLoading |-> TRUE, data |-> Null, error |-> Null,
              settled |-> FALSE]
  /\ last = [event |-> "mount", show |-> FALSE, active |-> 0]

FilterNext ==
  \/ \E q \in Queries : (value = <<>> /\ handleOnChange(q))
  \/ TimePasses
  \/ TimerFire

FilterSpec == FilterInit /\ [][FilterNext]_vars

----------------------------------------------------------------------------
(* Filter failures: the host passes a list holding an item whose name is   *)
(* no string, and later the well-formed list.                              *)

Nameless == [url |-> 5]

MalformedResults == <<Pokemon1, Nameless, Pokemon3>>

(* App: setCharacters(data.results) hands the component another list *)
HostPassesData ==
  /\ mounted
  /\ data # FetchedResults
  /\ data' \in {MalformedResults, FetchedResults} \ {data}
  /\ invoked' = <<>>
  /\ thrown' = FALSE
  /\ applied' = <<>>
  /\ Event("data")
  /\ Rerender
  /\ UNCHANGED <<elapsed, failed, fetch>>
  /\ UNCHANGED <<variant, mounted, value, showSuggestions, suggestions,
                 activeSuggestion, scrollTop, pending, lastIssued>>

ErrorNext ==
  \/ HostPassesData
  \/ \E input \in Inputs : handleOnChange(input)
  \/ TimePasses
  \/ TimerFire

ErrorSpec == Init /\ [][ErrorNext]_vars

----------------------------------------------------------------------------
(* Longer lists: the cursor keys and the scroll position of the <ul>, on   *)
(* lists of up to MaxRows items that all match the text "o".               *)

MaxRows == 4

Row(k) == [name |-> [j \in 1..k |-> "o"], url |-> k]

Rows(n) == [k \in 1..n |-> Row(k)]

ScrollInit ==
  /\ variant \in Variants
  /\ mounted = TRUE
  /\ data \in { Rows(n) : n \in 0..MaxRows }
  /\ value = <<>>
  /\ showSuggestions = FALSE
  /\ suggestions = <<>>
  /\ activeSuggestion = 0
  /\ scrollTop = "0"
  /\ pending = <<>>
  /\ elapsed = 0
  /\ invoked = <<>>
  /\ thrown = FALSE
  /\ applied = <<>>
  /\ lastIssued = <<>>
  /\ failed = FALSE
  /\ listeners = addEventListener(<<>>)
  /\ fetch = [isLoading |-> TRUE, data |-> Null, error |-> Null,
              settled |-> FALSE]
  /\ last = [event |-> "mount", show |-> FALSE, active |-> 0]

ScrollNext ==
  \/ \E input \in Inputs : handleOnChange(input)
  \/ TimePasses
  \/ TimerFire
  \/ \E key \in Keys : onKeyDown(key)
  \/ \E i \in DOMAIN suggestions : onSuggestionItemHover(i)

ScrollSpec == ScrollInit /\ [][ScrollNext]_vars

----------------------------------------------------------------------------
(* useFetch in App: one fetch per mount.  The response is ok and its body  *)
(* parses, or fetch rejects, or the status is not ok, or the body does not *)
(* parse.  App hands data.results to the component once data is set; the   *)
(* user may type while the fetch is under way.                             *)

Outcomes == {"ok", "network", "status", "parse"}

Payload == [results |-> FetchedResults]

ErrorOf(outcome) ==
  CASE outcome = "network" -> "TypeError"
    [] outcome = "status"  -> "Network error!"
    [] OTHER               -> "SyntaxError"

(* a catch block that leaves the loading flag set *)
fetchData_KeepsLoading(outcome) ==
  /\ mounted
  /\ ~fetch.settled
  /\ fetch' = IF outcome = "ok"
              THEN [fetch EXCEPT !.data = Some(Payload),
                                 !.isLoading = FALSE,
                                 !.settled = TRUE]
              ELSE [fetch EXCEPT !.error = Some(ErrorOf(outcome)),
                                 !.isLoading = fetch.isLoading,
                                 !.settled = TRUE]
  /\ invoked' = <<>>
  /\ thrown' = FALSE
  /\ applied' = <<>>
  /\ Event("fetch")
  /\ Rerender
  /\ UNCHANGED <<elapsed, failed>>
  /\ UNCHANGED <<variant, mounted, data, value, showSuggestions, suggestions,
                 activeSuggestion, scrollTop, pending, lastIssued>>

(* fetchData: the awaited fetch and json settle; setData and             *)
(* setLoading(false), or setError and setLoading(false)                    *)
fetchData(outcome) ==
  /\ mounted
  /\ ~fetch.settled
  /\ fetch' = IF outcome = "ok"
              THEN [fetch EXCEPT !.data = Some(Payload),
                                 !.isLoading = FALSE,
                                 !.settled = TRUE]
              ELSE [fetch EXCEPT !.error = Some(ErrorOf(outcome)),
                                 !.isLoading = FALSE,
                                 !.settled = TRUE]
  /\ invoked' = <<>>
  /\ thrown' = FALSE
  /\ applied' = <<>>
  /\ Event("fetch")
  /\ Rerender
  /\ UNCHANGED <<elapsed, failed>>
  /\ UNCHANGED <<variant, mounted, data, value, showSuggestions, suggestions,
                 activeSuggestion, scrollTop, pending, lastIssued>>

(* App: useEffect on [data] calls setCharacters(data.results) *)
AppSetCharacters ==
  /\ fetch.data # Null
  /\ HostSetData

FetchNext ==
  \/ \E outcome \in Outcomes : fetchData(outcome)
  \/ AppSetCharacters
  \/ \E input \in Inputs : handleOnChange(input)
  \/ TimePasses
  \/ TimerFire

FetchSpec == Init /\ [][FetchNext]_vars

----------------------------------------------------------------------------
(* What is on screen: the <li> elements of the <ul>, when it is rendered *)

NoResults == "No results found"

RenderedList ==
  IF ~showSuggestions THEN <<>>
  ELSE IF Len(suggestions) > 0
       THEN [k \in 1..Len(suggestions) |-> suggestions[k].name]
       ELSE <<NoResults>>

----------------------------------------------------------------------------
(* HighlightSearchValue: new RegExp(searchValue, "gi") on the raw text.    *)
(* Of the pattern language the model has the letters, "." (any character)  *)
(* and "(" (which opens a group; no ")" can be typed here, so a pattern     *)
(* holding it is a SyntaxError).  The rendered <div> is a sequence of       *)
(* characters, each inside the yellow <span> or not.                       *)

ValidPattern(searchValue) ==
  \A j \in 1..Len(searchValue) : searchValue[j] # "("

PatternCharMatches(p, c) ==
  \/ p = "."
  \/ LowerChar(p) = LowerChar(c)

MatchesAt(text, searchValue, i) ==
  /\ i + Len(searchValue) - 1 <= Len(text)
  /\ \A j \in 1..Len(searchValue) :
       PatternCharMatches(searchValue[j], text[i + j - 1])

(* regex.test(value) *)
test(searchValue, text) ==
  \E i \in 1..(Len(text) + 1) : MatchesAt(text, searchValue, i)

Plain(text) == [i \in 1..Len(text) |-> [ch |-> text[i], em |-> FALSE]]

Span(searchValue) ==
  [j \in 1..Len(searchValue) |-> [ch |-> searchValue[j], em |-> TRUE]]

(* value.replace(regex, `<span ...>${searchValue}</span>`): with the g     *)
(* flag every match, left to right and not overlapping, is replaced        *)
RECURSIVE replace(_, _, _)
replace(text, searchValue, i) ==
  IF i > Len(text) THEN <<>>
  ELSE IF Len(searchValue) > 0 /\ MatchesAt(text, searchValue, i)
       THEN Span(searchValue) \o replace(text, searchValue, i + Len(searchValue))
       ELSE <<[ch |-> text[i], em |-> FALSE]>> \o replace(text, searchValue, i + 1)

HighlightSearchValue(searchValue, text) ==
  IF test(searchValue, text)
  THEN replace(text, searchValue, 1)
  ELSE Plain(text)

(* the render of the <li> elements: it throws when the text typed is no    *)
(* pattern                                                                 *)
RenderThrows ==
  /\ mounted
  /\ showSuggestions
  /\ suggestions # <<>>
  /\ ~ValidPattern(value)

RenderedItem(k) == HighlightSearchValue(value, suggestions[k].name)

----------------------------------------------------------------------------
(* Typed punctuation: names and texts that hold "." and "(".  A render     *)
(* that throws takes the component down; nothing is handled after it.      *)

Punctuated1 == [name |-> <<"o", ".">>, url |-> 1]
Punctuated2 == [name |-> <<"(", "o">>, url |-> 2]
Punctuated3 == [name |-> <<"n", "o">>, url |-> 3]

PunctuatedResults == <<Punctuated1, Punctuated2, Punctuated3>>

PatternInputs == { <<>>, <<"o">>, <<".">>, <<"(">>, <<".", "o">> }

PatternInit ==
  /\ variant \in Variants
  /\ mounted = TRUE
  /\ data = PunctuatedResults
  /\ value = <<>>
  /\ showSuggestions = FALSE
  /\ suggestions = <<>>
  /\ activeSuggestion = 0
  /\ scrollTop = "0"
  /\ pending = <<>>
  /\ elapsed = 0
  /\ invoked = <<>>
  /\ thrown = FALSE
  /\ applied = <<>>
  /\ lastIssued = <<>>
  /\ failed = FALSE
  /\ listeners = addEventListener(<<>>)
  /\ fetch = [isLoading |-> TRUE, data |-> Null, error |-> Null,
              settled |-> FALSE]
  /\ last = [event |-> "mount", show |-> FALSE, active |-> 0]

PatternNext ==
  \/ \E input \in PatternInputs : (~RenderThrows /\ handleOnChange(input))
  \/ (~RenderThrows /\ TimePasses)
  \/ (~RenderThrows /\ TimerFire)

PatternSpec == PatternInit /\ [][PatternNext]_vars

----------------------------------------------------------------------------
(* Vocabulary of the properties *)

SameLetter(a, b) ==
  \/ a = b
  \/ {a, b} = {"o", "O"}
  \/ {a, b} = {"n", "N"}
  \/ {a, b} = {"x", "X"}

ContainsIgnoringCase(text, q) ==
  \E off \in 0..(Len(text) - Len(q)) :
    \A j \in 1..Len(q) : SameLetter(text[off + j], q[j])

MatchingPositions(list, q) ==
  { k \in 1..Len(list) : ContainsIgnoringCase(list[k].name, q) }

(* result is list restricted to its matching positions, in list order *)
ExactlyTheMatches(list, q, result) ==
  /\ Len(result) = Cardinality(MatchingPositions(list, q))
  /\ \A k \in MatchingPositions(list, q) :
       result[Cardinality({m \in MatchingPositions(list, q) : m <= k})] = list[k]

TimerStep == TimerFire /\ mounted

EnterStep == onKeyDown("Enter")

ClickStep(i) == onSetSuggestion(i)

----------------------------------------------------------------------------
(* C1: a timer that fires while a newer request is pending leaves          *)
(* suggestions and showSuggestions as they were.                           *)
C1_StaleResultDiscarded ==
  [][(TimerStep /\ Len(pending) > 1)
       => UNCHANGED <<suggestions, showSuggestions>>]_vars

(* C2: whenever the input text is empty the list is hidden. *)
C2_EmptyTextHidden ==
  value = <<>> => ~showSuggestions

(* C3: whenever suggestions is non-empty the cursor is one of its indices. *)
C3_CursorInRange ==
  suggestions # <<>> =>
    (0 <= activeSuggestion /\ activeSuggestion < Len(suggestions))

(* C4: a result is written to suggestions only while the text it was       *)
(* computed for is still the input text.                                   *)
C4_ResultForCurrentText ==
  applied # <<>> => applied[1].input = value

(* C5: when a request was issued while an older one was pending and no     *)
(* input followed it, then once no timer is left the list is visible and   *)
(* holds the filter result of that newest request.                         *)
C5_DebounceRace ==
  (/\ mounted
   /\ lastIssued # <<>>
   /\ lastIssued[1].behind > 0
   /\ pending = <<>>)
  => /\ showSuggestions
     /\ ExactlyTheMatches(lastIssued[1].data, lastIssued[1].input, suggestions)

C5_Witness ==
  /\ mounted
  /\ lastIssued # <<>>
  /\ lastIssued[1].behind > 0
  /\ pending = <<>>
  /\ applied = lastIssued
  /\ suggestions = <<Pokemon1, Pokemon3>>

(* C6: the committed result of a non-empty query is exactly the items of   *)
(* the candidate list whose name contains the query ignoring case, in the  *)
(* order of the list.                                                      *)
C6_FilterExact ==
  applied # <<>> =>
    ExactlyTheMatches(applied[1].data, applied[1].input, suggestions)

C6_Witness ==
  /\ applied # <<>>
  /\ Len(applied[1].data) = 2
  /\ applied[1].input = <<"n">>
  /\ applied[1].data[1].name = <<"o", "o">>
  /\ applied[1].data[2].name = <<"o", "N">>
  /\ suggestions = <<applied[1].data[2]>>

(* C7: a timer that fires on the mounted component makes the list visible  *)
(* and replaces suggestions by the filtered list; an empty result is shown *)
(* as the single "No results found" entry.                                 *)
C7_ResolveShowsResult ==
  applied # <<>> =>
    /\ showSuggestions
    /\ suggestions = FilterData(applied[1].data, applied[1].input)
    /\ (suggestions = <<>> => RenderedList = <<NoResults>>)
    /\ (suggestions # <<>> => Len(RenderedList) = Len(suggestions))

C7_Witness ==
  /\ applied # <<>>
  /\ applied[1].data = FetchedResults
  /\ applied[1].input = <<"x">>
  /\ suggestions = <<>>
  /\ showSuggestions
  /\ RenderedList = <<NoResults>>

(* C8: Enter on a visible, non-empty list sets the text to the name of     *)
(* suggestions[activeSuggestion], hides the list and hands that item to    *)
(* setSelectedItem once.                                                   *)
C8_EnterCommits ==
  [][(EnterStep /\ showSuggestions /\ suggestions # <<>>)
       => /\ HasActiveItem
          /\ value' = ActiveItem.name
          /\ ~showSuggestions'
          /\ invoked' = <<ActiveItem>>]_vars

(* C9: setSelectedItem is called only by Enter or by a click on an item,   *)
(* at most once in a step, and once by every selection that succeeds.      *)
C9_CallbackOncePerSelection ==
  [][/\ Len(invoked') <= 1
     /\ (invoked' # <<>> =>
           \/ EnterStep
           \/ \E i \in DOMAIN suggestions : ClickStep(i))
     /\ ((\E i \in DOMAIN suggestions : ClickStep(i)) => Len(invoked') = 1)
     /\ ((EnterStep /\ EnterGuard /\ HasActiveItem) => Len(invoked') = 1)]_vars

C9_Witness ==
  /\ invoked # <<>>
  /\ ~showSuggestions
  /\ value = invoked[1].name
  /\ HasActiveItem
  /\ ActiveItem = invoked[1]

(* C10: a click on the item at position i of the visible list sets the     *)
(* text to that item's name, hides the list and hands that item to         *)
(* setSelectedItem, whatever the cursor is.                                *)
C10_ClickCommitsClicked ==
  [][\A i \in DOMAIN suggestions :
       ClickStep(i) => /\ value' = suggestions[i].name
                       /\ ~showSuggestions'
                       /\ invoked' = <<suggestions[i]>>]_vars

C10_Witness ==
  /\ invoked # <<>>
  /\ ~showSuggestions
  /\ value = invoked[1].name
  /\ HasActiveItem
  /\ ActiveItem # invoked[1]

----------------------------------------------------------------------------
KeyStep(key) == onKeyDown(key)

ChangeStep(input) == handleOnChange(input)

HoverStep(i) == onSuggestionItemHover(i)

OutsideStep == OutsideClick /\ mounted

ListState == <<value, showSuggestions, suggestions, activeSuggestion>>

(* C11: on a visible list with no suggestions ArrowUp, ArrowDown and Enter *)
(* change nothing, call nothing and raise nothing.                         *)
C11_EmptyListKeysIgnored ==
  [][\A key \in {"ArrowUp", "ArrowDown", "Enter"} :
       (KeyStep(key) /\ showSuggestions /\ suggestions = <<>>)
         => /\ UNCHANGED ListState
            /\ invoked' = <<>>
            /\ ~thrown']_vars

(* C12: Escape on a visible list hides it and empties the text, and does   *)
(* not call setSelectedItem.                                               *)
C12_EscapeClears ==
  [][(KeyStep("Escape") /\ showSuggestions)
       => /\ ~showSuggestions'
          /\ value' = <<>>
          /\ invoked' = <<>>]_vars

C12_Witness ==
  /\ last.event = "Escape"
  /\ last.show
  /\ ~showSuggestions
  /\ value = <<>>
  /\ suggestions # <<>>
  /\ invoked = <<>>

(* C13: a mouse press outside the container on a visible list hides the    *)
(* list and leaves the text, the suggestions and the cursor as they were,  *)
(* without calling setSelectedItem.                                        *)
C13_OutsideClickOnlyHides ==
  [][(OutsideStep /\ showSuggestions)
       => /\ ~showSuggestions'
          /\ UNCHANGED <<value, suggestions, activeSuggestion>>
          /\ invoked' = <<>>]_vars

C13_Witness ==
  /\ last.event = "outside"
  /\ last.show
  /\ ~showSuggestions
  /\ value # <<>>
  /\ suggestions # <<>>
  /\ activeSuggestion > 0
  /\ invoked = <<>>

(* C14: hovering the item at position i of the visible list makes i the    *)
(* cursor and leaves the text, the suggestions and the visibility as they  *)
(* were, without calling setSelectedItem.                                  *)
C14_HoverMovesCursorOnly ==
  [][\A i \in DOMAIN suggestions :
       HoverStep(i) => /\ activeSuggestion' = i - 1
                       /\ UNCHANGED <<value, suggestions, showSuggestions>>
                       /\ invoked' = <<>>]_vars

C14_Witness ==
  /\ last.event = "hover"
  /\ last.active = 0
  /\ activeSuggestion = 2
  /\ showSuggestions
  /\ Len(suggestions) = 3
  /\ invoked = <<>>

(* C15: ArrowUp moves the cursor down by one unless it is 0, ArrowDown     *)
(* moves it up by one only while it is below the last index; at 0 and at   *)
(* the last index the press changes nothing.                               *)
C15_ArrowKeysBounded ==
  [][/\ (KeyStep("ArrowUp") =>
           activeSuggestion' = IF activeSuggestion = 0 THEN 0
                               ELSE activeSuggestion - 1)
     /\ (KeyStep("ArrowDown") =>
           activeSuggestion' = IF activeSuggestion < Len(suggestions) - 1
                               THEN activeSuggestion + 1
                               ELSE activeSuggestion)
     /\ ((\/ KeyStep("ArrowUp") /\ activeSuggestion = 0
          \/ KeyStep("ArrowDown") /\ activeSuggestion = Len(suggestions) - 1)
           => UNCHANGED <<ListState, scrollTop>>)]_vars

C15_Witness ==
  /\ last.event = "ArrowDown"
  /\ last.active = 2
  /\ activeSuggestion = 2
  /\ Len(suggestions) = 3
  /\ showSuggestions

(* C16: every change of the input sets the text to the new input and the   *)
(* cursor to 0.                                                            *)
C16_KeystrokeSetsTextAndCursor ==
  [][\A input \in Inputs :
       ChangeStep(input) => /\ value' = input
                            /\ activeSuggestion' = 0]_vars

C16_Witness ==
  /\ last.event = "change"
  /\ last.active > 0
  /\ activeSuggestion = 0
  /\ value = <<"O", "N">>

(* C17: a change that empties the input hides the list, starts no timer    *)
(* and leaves suggestions as it was.                                       *)
C17_EmptyKeystroke ==
  [][ChangeStep(<<>>) => /\ ~showSuggestions'
                         /\ pending' = pending
                         /\ suggestions' = suggestions]_vars

C17_Witness ==
  /\ last.event = "change"
  /\ value = <<>>
  /\ last.show
  /\ ~showSuggestions
  /\ suggestions # <<>>
  /\ pending # <<>>

(* C18: a change to a non-empty text starts exactly one timer, for that    *)
(* text, whose delay has not elapsed, and writes no result itself; a       *)
(* result is written only by a timer whose delay has elapsed.              *)
C18_OneDelayedRequest ==
  [][/\ \A input \in Inputs \ {<<>>} :
          ChangeStep(input)
            => /\ Len(pending') = Len(pending) + 1
               /\ SubSeq(pending', 1, Len(pending)) = pending
               /\ pending'[Len(pending')].input = input
               /\ elapsed' < Len(pending')
               /\ UNCHANGED <<suggestions, showSuggestions>>
               /\ applied' = <<>>
     /\ ((suggestions' # suggestions \/ applied' # <<>>)
           => /\ elapsed > 0
              /\ pending' = Tail(pending)
              /\ applied' = <<Head(pending)>>)]_vars

C18_Witness ==
  /\ last.event = "change"
  /\ value = <<"O", "N">>
  /\ Len(pending) = 2
  /\ pending[2].input = value
  /\ elapsed = 1
  /\ suggestions = <<>>
  /\ ~showSuggestions

(* C19: after the component was unmounted no timer callback runs. *)
C19_NoTimerAfterUnmount ==
  ~mounted => last.event # "timer"

(* C20: after the component was unmounted it has no mousedown listener on  *)
(* document, so no mouse press runs the dismissal handler.                 *)
C20_ListenerDetached ==
  ~mounted => (listeners = <<>> /\ last.event # "outside" /\ ~ENABLED OutsideClick)

C20_Witness ==
  /\ ~mounted
  /\ last.event = "unmount"
  /\ last.show
  /\ listeners = <<>>

----------------------------------------------------------------------------
FailedTimerStep == TimerFire /\ FilterThrows(Head(pending).data)

(* C21: a timer whose filter throws changes neither the suggestions, the   *)
(* visibility, the text nor the cursor, commits no result and ends in an   *)
(* error.                                                                  *)
C21_FailureMutatesNothing ==
  [][FailedTimerStep => /\ UNCHANGED ListState
                        /\ applied' = <<>>
                        /\ thrown']_vars

C21_Witness ==
  /\ last.event = "timer"
  /\ thrown
  /\ mounted
  /\ value = <<"o">>
  /\ ~showSuggestions
  /\ suggestions = <<>>

(* C22: after a filter attempt has failed the mounted component still      *)
(* takes input: a change to a non-empty text is possible and starts a      *)
(* fresh request on the current data, and a timer whose filter does not    *)
(* throw shows the list with its filter result.                            *)
C22_FailureIsLocal ==
  [][failed =>
       /\ \A input \in Inputs \ {<<>>} :
            /\ (mounted /\ input # value /\ Len(pending) < MaxPending)
                  => ENABLED handleOnChange(input)
            /\ ChangeStep(input)
                  => /\ pending' = Append(pending, Request(input))
                     /\ pending'[Len(pending')].data = data
       /\ (TimerStep /\ ~FilterThrows(Head(pending).data))
            => /\ showSuggestions'
               /\ suggestions' = FilterData(Head(pending).data,
                                            Head(pending).input)
               /\ ~thrown']_vars

C22_Witness ==
  /\ failed
  /\ last.event = "timer"
  /\ applied # <<>>
  /\ applied[1].data = FetchedResults
  /\ showSuggestions
  /\ suggestions = <<Pokemon1, Pokemon3>>
  /\ value = <<"O", "N">>

(* C23: right after the mount the text is empty, the list is hidden, there *)
(* are no suggestions, the cursor is 0 and no timer is set.                *)
C23_FreshOnMount ==
  last.event = "mount" =>
    /\ value = <<>>
    /\ ~showSuggestions
    /\ suggestions = <<>>
    /\ activeSuggestion = 0
    /\ pending = <<>>

C23_Witness ==
  /\ last.event = "mount"
  /\ mounted
  /\ data = <<>>
  /\ listeners = <<"latest">>

InputClickStep == onInputClick

(* C26: a mouse press on the input does not run the dismissal handler: a   *)
(* visible list stays visible and text, suggestions and cursor stay.       *)
C26_InputClickKeepsList ==
  [][(InputClickStep /\ showSuggestions)
       => /\ showSuggestions'
          /\ UNCHANGED ListState]_vars

C26_Witness ==
  /\ last.event = "inputclick"
  /\ last.show
  /\ showSuggestions
  /\ suggestions # <<>>
  /\ listeners # <<>>

(* C27: at most one filter request is pending at any time. *)
C27_AtMostOnePending ==
  Len(pending) <= 1

(* C28: an outside click leaves the text as it was; a commit by Enter or   *)
(* click sets the text to the committed item's name, which is not empty;   *)
(* a step that hides the list and empties a non-empty text is an Escape or *)
(* the change to the empty text.                                           *)
C28_OnlyEscapeClearsText ==
  [][/\ (OutsideStep => value' = value)
     /\ (invoked' # <<>> => (value' = invoked'[1].name /\ value' # <<>>))
     /\ ((showSuggestions /\ ~showSuggestions' /\ value # <<>> /\ value' = <<>>)
           => (KeyStep("Escape") \/ ChangeStep(<<>>)))]_vars

C28_Witness ==
  /\ last.event = "click"
  /\ last.show
  /\ ~showSuggestions
  /\ invoked # <<>>
  /\ value = invoked[1].name
  /\ value # <<>>
  /\ data = FetchedResults
  /\ Pokemon4 \in {data[k] : k \in 1..Len(data)}

(* C29: ArrowUp on a rendered list with the cursor above 0 moves the       *)
(* cursor down by one and, when the new cursor is at most half the length  *)
(* of the list, scrolls the list to its top.                               *)
C29_ArrowUpScrollsTop ==
  [][(KeyStep("ArrowUp") /\ showSuggestions /\ activeSuggestion > 0)
       => /\ activeSuggestion' = activeSuggestion - 1
          /\ (2 * activeSuggestion' <= Len(suggestions) => scrollTop' = "0")]_vars

(* C30: ArrowDown on a rendered list with the cursor below the last index  *)
(* moves the cursor up by one and, when the new cursor is at least half    *)
(* the length of the list, scrolls the list to its bottom.                 *)
C30_ArrowDownScrollsBottom ==
  [][(KeyStep("ArrowDown") /\ showSuggestions
        /\ activeSuggestion < Len(suggestions) - 1)
       => /\ activeSuggestion' = activeSuggestion + 1
          /\ (2 * activeSuggestion' >= Len(suggestions)
                => scrollTop' = "scrollHeight")]_vars

----------------------------------------------------------------------------
Displayed(out) == [i \in 1..Len(out) |-> out[i].ch]

Emphasised(out) == { i \in 1..Len(out) : out[i].em }

FirstMatch(text, q) ==
  CHOOSE i \in 1..Len(text) :
    /\ ContainsIgnoringCase(SubSeq(text, i, i + Len(q) - 1), q)
    /\ \A h \in 1..(i - 1) :
         ~ContainsIgnoringCase(SubSeq(text, h, h + Len(q) - 1), q)

(* C24: every rendered item shows the characters of its name unchanged;    *)
(* when the name contains the text ignoring case, exactly the first such   *)
(* occurrence is emphasised, and otherwise nothing is.                     *)
C24_HighlightFirstMatch ==
  (showSuggestions /\ value # <<>>) =>
    \A k \in 1..Len(suggestions) :
      /\ Displayed(RenderedItem(k)) = suggestions[k].name
      /\ Emphasised(RenderedItem(k)) =
           IF ContainsIgnoringCase(suggestions[k].name, value)
           THEN LET f == FirstMatch(suggestions[k].name, value)
                IN  f..(f + Len(value) - 1)
           ELSE {}

(* C25: the render never throws on the text typed, and a rendered item has *)
(* an emphasised part only when its name contains the text itself,         *)
(* compared character by character ignoring case.                          *)
C25_QueryTakenLiterally ==
  /\ ~RenderThrows
  /\ (showSuggestions /\ value # <<>> /\ ValidPattern(value)) =>
       \A k \in 1..Len(suggestions) :
         Emphasised(RenderedItem(k)) # {}
           => includes(toLowerCase(suggestions[k].name), toLowerCase(value))

----------------------------------------------------------------------------
C32_EnterNeedsVisibleList ==
  [][(EnterStep /\ ~showSuggestions)
       => /\ value' = value
          /\ invoked' = <<>>]_vars

(* C33: whenever the Enter branch runs, suggestions[activeSuggestion] is   *)
(* an item of the list and the handler does not throw.                     *)
C33_EnterReadsAnItem ==
  [][(EnterStep /\ EnterGuard)
       => /\ HasActiveItem
          /\ ~thrown']_vars

Dismissals == {"Escape", "outside", "click", "Enter"}

(* C34: after the list was hidden by Escape, an outside click or a commit, *)
(* a timer set before that dismissal does not show the list again: a timer *)
(* that runs while the dismissal is still the last event leaves it hidden. *)
C34_DismissalHolds ==
  [][(/\ last.event \in Dismissals
      /\ ~showSuggestions
      /\ TimerStep)
       => ~showSuggestions']_vars

----------------------------------------------------------------------------
Requests ==
  [input : LiveInputs \ {<<>>}, data : {FetchedResults}, behind : {0, 1}]

IsPending(r) == \E k \in 1..Len(pending) : pending[k] = r

Resolved(r) ==
  /\ applied = <<r>>
  /\ showSuggestions
  /\ suggestions = FilterData(r.data, r.input)

----------------------------------------------------------------------------
(* C36: a request carries the list the component held when its keystroke   *)
(* was handled, and the timer commits exactly the matches of that list, in *)
(* its order, whatever the list is by then.                                *)
C36_FiltersCapturedData ==
  [][/\ \A input \in Inputs \ {<<>>} :
          ChangeStep(input) => pending'[Len(pending')].data = data
     /\ TimerStep =>
          /\ suggestions' = FilterData(Head(pending).data, Head(pending).input)
          /\ ExactlyTheMatches(Head(pending).data, Head(pending).input,
                               suggestions')
          /\ UNCHANGED data]_vars

(* typed before the fetched list arrived, resolved after it *)
C36_Witness ==
  /\ last.event = "timer"
  /\ applied # <<>>
  /\ applied[1].data = <<>>
  /\ applied[1].input = <<"o">>
  /\ data = FetchedResults
  /\ showSuggestions
  /\ suggestions = <<>>

(* C37: suggestions is written by a timer callback only; keys, clicks,     *)
(* hovers and outside clicks leave suggestions and the timers as they are, *)
(* and a change of the input leaves suggestions as it is.                  *)
C37_OnlyTimersWriteSuggestions ==
  [][/\ (suggestions' # suggestions => TimerStep)
     /\ \A key \in Keys : KeyStep(key) => UNCHANGED <<suggestions, pending>>
     /\ \A i \in DOMAIN suggestions :
          (ClickStep(i) \/ HoverStep(i)) => UNCHANGED <<suggestions, pending>>
     /\ (OutsideStep => UNCHANGED <<suggestions, pending>>)
     /\ \A input \in Inputs : ChangeStep(input) => UNCHANGED suggestions]_vars

C37_Witness ==
  /\ last.event = "click"
  /\ invoked # <<>>
  /\ value = invoked[1].name
  /\ pending = <<>>
  /\ Len(suggestions) = 3
  /\ ~showSuggestions

----------------------------------------------------------------------------
(* C38: while the component is mounted exactly one mousedown listener is   *)
(* attached, and it holds the handler of the latest render.                *)
C38_OneLatestListener ==
  mounted => listeners = <<"latest">>

C38_Witness ==
  /\ mounted
  /\ last.event = "outside"
  /\ last.show
  /\ ~showSuggestions
  /\ listeners = <<"latest">>
  /\ pending # <<>>

FetchStep(outcome) == fetchData(outcome)

(* C39: until the fetch settles isLoading is true and data and error are   *)
(* null; the step that settles it sets isLoading to false and writes data  *)
(* and not error when the response is ok and parses, error and not data    *)
(* otherwise; isLoading, once false, stays false.                          *)
C39_FetchSettlesOnce ==
  [][/\ (~fetch.settled =>
           (fetch.isLoading /\ fetch.data = Null /\ fetch.error = Null))
     /\ (~fetch.isLoading => ~fetch'.isLoading)
     /\ \A outcome \in Outcomes :
          FetchStep(outcome) =>
            /\ ~fetch'.isLoading
            /\ IF outcome = "ok"
               THEN fetch'.data = Some(Payload) /\ fetch'.error = fetch.error
               ELSE fetch'.error # Null /\ fetch'.data = fetch.data
     /\ (fetch.settled =>
           /\ (fetch.data = Null) # (fetch.error = Null)
           /\ fetch' = fetch)]_vars

C39_Witness ==
  /\ fetch.settled
  /\ ~fetch.isLoading
  /\ fetch.error = Some("Network error!")
  /\ fetch.data = Null
  /\ data = <<>>
  /\ showSuggestions

====
